---- MODULE Spec2Model ----
(***************************************************************************)
(* CAVE simulator (src/Minimal/main.cpp): the frame loop of GlfwApp::run,  *)
(* SimApp::update, RiftApp::draw with the per-eye scene pass               *)
(* (SimApp::offscreenRender -> SimScene::preRender) and composite pass     *)
(* (SimApp::renderScene -> SimScene::render), and the off-axis projection  *)
(* solver SimScene::getProjection.                                         *)
(*                                                                         *)
(* Graphics calls are recorded in glLog in the order the code issues them  *)
(* (the log is restarted at the top of every RiftApp::draw).  Positions    *)
(* are integer triples in millimetres; an orientation is an opaque token,  *)
(* 0 being the identity rotation.  The solver is computed in exact         *)
(* arithmetic over the rationals extended by sqrt(2) (floating point       *)
(* rounding is not modelled).                                              *)
(***************************************************************************)
EXTENDS Integers, Sequences, FiniteSets, TLC

VARIABLES
    step,                   \* position of the render thread in GlfwApp::run
    frame,                  \* GlfwApp::frame
    shouldClose,            \* glfwWindowShouldClose(window)
    buttonAPressed, buttonBPressed, buttonXPressed, rightHandTriggerPressed,
    buttonA, buttonB, buttonX,
    IOD,
    random_num, randomGened,
    curEyeIdx,
    defaultHmdToEyeOffset,  \* RiftApp::defaultHmdToEyeOffset[2]
    rightHandPose, triggerPose, lastRightHand,
    eyePoses,               \* local of RiftApp::draw, filled by ovr_GetEyePoses
    renderEyeOffset,        \* local of RiftApp::draw (x components)
    lastEye, renderEye, initLastEye,
    eyeIter,                \* index into ForEachEye of the eye being drawn
    RenderPose,             \* _sceneLayer.RenderPose[2]
    sceneArg,               \* per eye: the arguments of the last preRender call
    compositeArg,           \* per eye: the arguments of the last render call
    glLog,                  \* calls issued to the graphics backend this frame
    liveHand,               \* hand position sampled by the last update that ended in LIVE mode
    glObjects,              \* the render-target objects of SimScene that are allocated
    fboComplete,            \* per face: the backend accepted the target's storage
    ppmFile,                \* the wall texture file as the file system has it
    wallTexture,            \* what Cave::loadCubemap handed to glTexImage2D
    errLog,                 \* messages written to std::cerr
    lines,                  \* per Line object: the vertex data and colour flag it holds
    storedHandFrame,        \* the frame in which lastRightHand was last assigned (0: never)
    projIn,                 \* arguments of a getProjection call
    projOut,                \* the locals getProjection computes from them
    projPrev                \* projIn and projOut of the call before

frameVars == <<step, frame, shouldClose, buttonAPressed, buttonBPressed, buttonXPressed,
               rightHandTriggerPressed, buttonA, buttonB, buttonX, IOD, random_num,
               randomGened, curEyeIdx, defaultHmdToEyeOffset, rightHandPose, triggerPose,
               lastRightHand, eyePoses, renderEyeOffset, lastEye, renderEye, initLastEye,
               eyeIter, RenderPose, sceneArg, compositeArg, glLog, liveHand,
               glObjects, fboComplete, ppmFile, wallTexture, errLog, lines,
               storedHandFrame>>

\* what SimApp::initGl sets up and the frame loop leaves alone
initVars == <<glObjects, fboComplete, ppmFile, wallTexture, errLog>>

projVars == <<projIn, projOut, projPrev>>

vars == <<frameVars, projVars>>

----------------------------------------------------------------------------
(* Bounds *)

MaxFrames == 3

----------------------------------------------------------------------------
(* Values *)

Eyes == {0, 1}

Faces == {0, 1, 2}          \* left, right, bottom, in the order preRender renders them

OrientIdentity == 0

MkPose(p, o) == [Position |-> p, Orientation |-> o]

PoseIdentity == MkPose(<<0, 0, 0>>, OrientIdentity)

\* What a default-constructed glm::mat4 member can hold before its first
\* assignment: the identity (GLM before 0.9.9) or arbitrary memory.
UninitMat4 == {PoseIdentity, MkPose(<<7, 7, 7>>, 3)}

\* Samples the tracking provider returns for the two eyes in one frame.
EyePoseSamples ==
    { <<MkPose(<<-30, 1700, 0>>, 1), MkPose(<<30, 1700, 0>>, 1)>>,
      <<MkPose(<<1470, 1650, -1500>>, 2), MkPose(<<1530, 1650, -1500>>, 2)>> }

\* Samples the tracking provider returns for the right hand.
HandPoseSamples == { MkPose(<<300, 1200, -400>>, 1), MkPose(<<-250, 1000, -100>>, 2) }

\* Device default lateral eye offsets (left, right), in millimetres.
DefaultOffsetSamples == { <<-29, 29>> }

\* inputState.Buttons as far as the tracking mode reads it, and as far as the
\* occlusion mode reads it
TrackingButtonSets == SUBSET {"B"}

OcclusionButtonSets == SUBSET {"X"}

Min(a, b) == IF a < b THEN a ELSE b

Max(a, b) == IF a > b THEN a ELSE b

----------------------------------------------------------------------------
(* The graphics backend as seen by a recording mock *)

\* One call: the function that issues it, curEyeIdx at that time (-1 outside the
\* eye loop), and the draw framebuffer bound when it is issued (filled in by Issue).
Call(op, arg, fn, eye) == [op |-> op, arg |-> arg, fn |-> fn, eye |-> eye, target |-> "?"]

\* the draw framebuffer bound after the recorded calls
BoundAfter(log) ==
    IF log = <<>> THEN "0"
    ELSE IF log[Len(log)].op = "glBindFramebuffer" THEN log[Len(log)].arg
    ELSE log[Len(log)].target

\* the log extended by calls, each stamped with the framebuffer bound by the
\* last glBindFramebuffer before it
Issue(log, calls) ==
    log \o [i \in 1 .. Len(calls) |->
              LET binds == {j \in 1 .. (i - 1) : calls[j].op = "glBindFramebuffer"}
              IN  [calls[i] EXCEPT !.target =
                      IF binds = {} THEN BoundAfter(log)
                      ELSE calls[CHOOSE j \in binds : \A k \in binds : k <= j].arg]]

FaceFBO(f) == <<"lFBO", "rFBO", "bFBO">>[f + 1]

FaceTexture(f) == <<"lrenderedTexture", "rrenderedTexture", "brenderedTexture">>[f + 1]

EyeViewport(e) == <<"vp0", "vp1">>[e + 1]


----------------------------------------------------------------------------
(* Exact arithmetic for the solver.  A number is <<n, m, den>>, standing   *)
(* for (n + m * sqrt(2)) / den with den > 0 and gcd(n, m, den) = 1: the    *)
(* rationals (m = 0) and the sines and cosines of the CAVE's turn by a     *)
(* quarter of pi.                                                          *)

Abs(a) == IF a < 0 THEN -a ELSE a

RECURSIVE Gcd(_, _)
Gcd(a, b) == IF b = 0 THEN Abs(a) ELSE Gcd(b, a % b)

Sgn(a) == IF a < 0 THEN -1 ELSE IF a > 0 THEN 1 ELSE 0

\* the sign of n + m * sqrt(2)
SurdSgn(n, m) ==
    IF n >= 0 /\ m >= 0 THEN (IF n > 0 \/ m > 0 THEN 1 ELSE 0)
    ELSE IF n <= 0 /\ m <= 0 THEN -1
    ELSE IF n > 0 THEN (IF n * n > 2 * m * m THEN 1 ELSE -1)
    ELSE (IF 2 * m * m > n * n THEN 1 ELSE -1)

\* (n + m * sqrt(2)) / den; a zero denominator gives <<1, 0, 0>>, <<-1, 0, 0>>
\* or <<0, 0, 0>>, as a float division gives +inf, -inf or NaN
Surd(n, m, den) ==
    IF den = 0
    THEN <<SurdSgn(n, m), 0, 0>>
    ELSE LET g == Gcd(Gcd(Abs(n), Abs(m)), Abs(den))
             s == IF den < 0 THEN -1 ELSE 1
         IN  <<(s * n) \div g, (s * m) \div g, (s * den) \div g>>

\* a / b
Rat(a, b) == Surd(a, 0, b)

RInt(a) == <<a, 0, 1>>

RSign(x) == SurdSgn(x[1], x[2])

RAdd(x, y) == Surd(x[1] * y[3] + y[1] * x[3], x[2] * y[3] + y[2] * x[3], x[3] * y[3])

RNeg(x) == <<-x[1], -x[2], x[3]>>

RSub(x, y) == RAdd(x, RNeg(y))

RMul(x, y) ==
    Surd(x[1] * y[1] + 2 * x[2] * y[2], x[1] * y[2] + x[2] * y[1], x[3] * y[3])

\* x / y: x times the conjugate of y over the norm of y
RDiv(x, y) ==
    IF y[1] = 0 /\ y[2] = 0
    THEN Surd(x[1] * y[3], x[2] * y[3], 0)
    ELSE Surd(y[3] * (x[1] * y[1] - 2 * x[2] * y[2]),
              y[3] * (x[2] * y[1] - x[1] * y[2]),
              x[3] * (y[1] * y[1] - 2 * y[2] * y[2]))

\* the largest k in lo .. hi with k * k <= a, by bisection
RECURSIVE SqrtBetween(_, _, _)
SqrtBetween(a, lo, hi) ==
    IF lo >= hi THEN lo
    ELSE LET mid == (lo + hi + 1) \div 2
         IN  IF mid * mid <= a THEN SqrtBetween(a, mid, hi) ELSE SqrtBetween(a, lo, mid - 1)

\* the integer square root (the root itself for a perfect square)
ISqrt(a) == SqrtBetween(a, 0, IF a < 46340 THEN a ELSE 46340)

IsSquare(a) == \E k \in 0 .. a : k * k = a

\* the square root of a rational with a rational root
RSqrt(x) == <<ISqrt(x[1]), 0, ISqrt(x[3])>>

VInt(v) == <<RInt(v[1]), RInt(v[2]), RInt(v[3])>>

VSub(u, v) == <<RSub(u[1], v[1]), RSub(u[2], v[2]), RSub(u[3], v[3])>>

VAdd(u, v) == <<RAdd(u[1], v[1]), RAdd(u[2], v[2]), RAdd(u[3], v[3])>>

VScale(k, v) == <<RMul(k, v[1]), RMul(k, v[2]), RMul(k, v[3])>>

Dot(u, v) == RAdd(RAdd(RMul(u[1], v[1]), RMul(u[2], v[2])), RMul(u[3], v[3]))

Cross(u, v) ==
    <<RSub(RMul(u[2], v[3]), RMul(u[3], v[2])),
      RSub(RMul(u[3], v[1]), RMul(u[1], v[3])),
      RSub(RMul(u[1], v[2]), RMul(u[2], v[1]))>>

\* glm::normalize
Normalize(v) == VScale(RDiv(RInt(1), RSqrt(Dot(v, v))), v)

----------------------------------------------------------------------------
(* SimScene::getProjection *)

\* Faulty variant: the distance is read off the z axis, as for a screen in the xy plane.
PlaneDistAlongZ(vn, va) == RNeg(va[3])

\* line 893: d = -dot(vn, va)
PlaneDist(vn, va) == RNeg(Dot(vn, va))

\* Faulty variant: the right bound is taken at corner pa, like the left one.
RightCornerIsPa(va, vb) == va

\* line 895: the corner whose offset gives the right bound
RightCorner(va, vb) == vb

\* Faulty variant: M is used where its transpose belongs.
RowsOfM(vr, vu, vn) ==
    << <<vr[1], vu[1], vn[1]>>, <<vr[2], vu[2], vn[2]>>, <<vr[3], vu[3], vn[3]>> >>

\* lines 900-903, 905: the rows of glm::transpose(M), M having the columns vr, vu, vn
RowsOfTransposeM(vr, vu, vn) == <<vr, vu, vn>>

\* line 904: a row of (a 3x3 matrix) * T, T being the translation by -eyePos
RowTimesT(row, eyePos) == <<row[1], row[2], row[3], RNeg(Dot(row, eyePos))>>

\* the row k1 * a + k2 * b
RowComb(k1, a, k2, b) == [i \in 1 .. 4 |-> RAdd(RMul(k1, a[i]), RMul(k2, b[i]))]

\* lines 887-905: the basis, the eye-to-corner vectors, the frustum bounds, and
\* of the returned matrix glm::frustum(l, r, b, t, n, f) * transpose(M) * T the
\* rows that give clip-space x, y and w (the z row, the only one the far plane
\* enters, is left out)
getProjection(eyePos, pa, pb, pc, n) ==
    LET vr == Normalize(VSub(pb, pa))
        vu == Normalize(VSub(pc, pa))
        vn == Normalize(Cross(vr, vu))
        va == VSub(pa, eyePos)
        vb == VSub(pb, eyePos)
        vc == VSub(pc, eyePos)
        d  == PlaneDist(vn, va)
        l  == RDiv(RMul(Dot(vr, va), n), d)
        r  == RDiv(RMul(Dot(vr, RightCorner(va, vb)), n), d)
        b  == RDiv(RMul(Dot(vu, va), n), d)
        t  == RDiv(RMul(Dot(vu, vc), n), d)
        mt == RowsOfTransposeM(vr, vu, vn)
        mx == RowTimesT(mt[1], eyePos)
        my == RowTimesT(mt[2], eyePos)
        mz == RowTimesT(mt[3], eyePos)
        n2 == RMul(RInt(2), n)
    IN  [vr |-> vr, vu |-> vu, vn |-> vn, d |-> d,
         l |-> l, r |-> r, b |-> b, t |-> t,
         rowX |-> RowComb(RDiv(n2, RSub(r, l)), mx, RDiv(RAdd(r, l), RSub(r, l)), mz),
         rowY |-> RowComb(RDiv(n2, RSub(t, b)), my, RDiv(RAdd(t, b), RSub(t, b)), mz),
         rowW |-> RowComb(RInt(-1), mz, RInt(0), mz)]

----------------------------------------------------------------------------
(* The CAVE: cave->toWorld and the corners of its faces *)

\* line 764: cave->toWorld = glm::rotate(glm::mat4(1.0f), -0.785398f, (0, 1, 0)),
\* the turn about the y axis by -pi/4: cosine sqrt(2)/2, sine -sqrt(2)/2
CaveCos == <<0, 1, 2>>

CaveSin == <<0, -1, 2>>

\* cave->toWorld * vec4(v, 1): x' = cos x + sin z, y' = y, z' = -sin x + cos z
CaveToWorld(v) ==
    <<RAdd(RMul(CaveCos, v[1]), RMul(CaveSin, v[3])),
      v[2],
      RSub(RMul(CaveCos, v[3]), RMul(CaveSin, v[1]))>>

\* half the edge of a CAVE face, the 2.0f of lines 808-810
CaveHalf == 2

\* Faulty variant: the upper corner of the left face is not above pa.
CaveCornersSkew(f, u) ==
    IF f = 0 THEN << <<-u, -u, u>>, <<-u, -u, -u>>, <<-u, u, u - (3 * u) \div 2>> >>
    ELSE IF f = 1 THEN << <<-u, -u, -u>>, <<u, -u, -u>>, <<-u, u, -u>> >>
    ELSE << <<-u, -u, u>>, <<u, -u, u>>, <<-u, -u, -u>> >>

\* lines 808-810, 832-834, 861-863: the corners <<pa, pb, pc>> of face f in CAVE
\* coordinates, u being the 2.0f in the unit of length in use
CaveCorners(f, u) ==
    IF f = 0 THEN << <<-u, -u, u>>, <<-u, -u, -u>>, <<-u, u, u>> >>
    ELSE IF f = 1 THEN << <<-u, -u, -u>>, <<u, -u, -u>>, <<-u, u, -u>> >>
    ELSE << <<-u, -u, u>>, <<u, -u, u>>, <<-u, -u, -u>> >>

\* Cave.h lines 68-93: the distinct vertices of the two triangles of the quad
\* that displays a face's render target, in CAVE coordinates
lvertices == { <<-10, -10, -10>>, <<-10, -10, 10>>, <<-10, 10, 10>>, <<-10, 10, -10>> }

rvertices == { <<-10, 10, -10>>, <<10, 10, -10>>, <<10, -10, -10>>, <<-10, -10, -10>> }

bvertices == { <<-10, -10, -10>>, <<10, -10, -10>>, <<10, -10, 10>>, <<-10, -10, 10>> }

\* Cave::draw: the quad drawn with the texture of face f
QuadVertices(f) == IF f = 0 THEN lvertices ELSE IF f = 1 THEN rvertices ELSE bvertices

\* lines 887-889: the basis of the face plane
Basis(pa, pb, pc) ==
    LET vr == Normalize(VSub(pb, pa))
        vu == Normalize(VSub(pc, pa))
    IN  [vr |-> vr, vu |-> vu, vn |-> Normalize(Cross(vr, vu))]

\* lines 808-810, 832-834, 861-863: the world-space corners <<pa, pb, pc>> of
\* the faces, in millimetres
CaveFaceMm ==
    [f \in Faces |->
        LET c == CaveCorners(f, 1000 * CaveHalf)
        IN  <<CaveToWorld(VInt(c[1])), CaveToWorld(VInt(c[2])), CaveToWorld(VInt(c[3]))>>]

CaveBasisMm == [f \in Faces |-> Basis(CaveFaceMm[f][1], CaveFaceMm[f][2], CaveFaceMm[f][3])]

\* line 893 in the getProjection calls of one preRender call: d for each face,
\* eyePos in millimetres
SolverDists(eyePos) ==
    [f \in Faces |-> PlaneDist(CaveBasisMm[f].vn, VSub(CaveFaceMm[f][1], VInt(eyePos)))]

----------------------------------------------------------------------------
(* SimScene::SimScene, Cave::Cave and Line *)

\* lines 700-760: the objects of the three render targets
RenderTargetObjects ==
    {"lFBO", "lrenderedTexture", "lRBO", "rFBO", "rrenderedTexture", "rRBO",
     "bFBO", "brenderedTexture", "bRBO"}

\* The wall texture file as the file system can have it: absent, whole, cut short.
PpmSamples ==
    { [found |-> FALSE, width |-> 0, height |-> 0, whole |-> FALSE],
      [found |-> TRUE,  width |-> 4, height |-> 4, whole |-> TRUE],
      [found |-> TRUE,  width |-> 4, height |-> 4, whole |-> FALSE] }

\* Faulty variant: width and height are not reset when the file cannot be opened.
loadPPMKeepsSize(file) ==
    IF ~file.found
    THEN [image |-> "null", width |-> -1, height |-> -1,
          err |-> {"error reading ppm file, could not locate"}]
    ELSE IF ~file.whole
    THEN [image |-> "null", width |-> 0, height |-> 0,
          err |-> {"error parsing ppm file, incomplete data"}]
    ELSE [image |-> "rawData", width |-> file.width, height |-> file.height, err |-> {}]

\* Cave::loadPPM: the returned pointer, the out parameters width and height, and
\* what it writes to std::cerr
loadPPM(file) ==
    IF ~file.found
    THEN [image |-> "null", width |-> 0, height |-> 0,
          err |-> {"error reading ppm file, could not locate"}]
    ELSE IF ~file.whole
    THEN [image |-> "null", width |-> 0, height |-> 0,
          err |-> {"error parsing ppm file, incomplete data"}]
    ELSE [image |-> "rawData", width |-> file.width, height |-> file.height, err |-> {}]

\* Cave::loadCubemap: the image, width and height it passes to glTexImage2D
loadCubemap(file) ==
    [image |-> loadPPM(file).image, width |-> loadPPM(file).width,
     height |-> loadPPM(file).height]

\* the fourteen Line objects of SimScene (lines 654-667), in the order render draws them
LineNames ==
    <<"linel1", "linel2", "linel3", "linel4", "linel5", "linel6", "linel7",
      "liner1", "liner2", "liner3", "liner4", "liner5", "liner6", "liner7">>

LineObjects == {LineNames[i] : i \in 1 .. Len(LineNames)}

\* Line::Line and Line.h: no vertex data uploaded yet, pressed = false
NewLine == [uploaded |-> FALSE, p1 |-> VInt(<<0, 0, 0>>), p2 |-> <<0, 0, 0>>, pressed |-> FALSE]

\* Line::update(p1, p2, p)
LineUpdate(p1, p2, p) == [uploaded |-> TRUE, p1 |-> p1, p2 |-> p2, pressed |-> p]

\* Line::draw, lines 25-28: the colour of the material
LineColour(line) == IF ~line.pressed THEN "green" ELSE "red"

\* Line::draw: the segment put on the screen
DrawnLine(line) ==
    [uploaded |-> line.uploaded, p1 |-> line.p1, p2 |-> line.p2, colour |-> LineColour(line)]

\* the k-th line of an eye: linel1 .. linel7 for the left, liner1 .. liner7 for the right
LineOf(eyeIdx, k) == LineNames[eyeIdx * 7 + k]

\* Faulty variant: the third line repeats the corner of the first (the update
\* left commented out in line 843).
LineCornerRepeated(k) ==
    LET L == CaveFaceMm[0]
        R == CaveFaceMm[1]
        B == CaveFaceMm[2]
    IN  CASE k = 1 -> L[3]
          [] k = 2 -> L[1]
          [] k = 3 -> L[3]
          [] k = 4 -> R[1]
          [] k = 5 -> VAdd(R[2], VSub(R[3], R[1]))
          [] k = 6 -> R[2]
          [] k = 7 -> B[2]

\* lines 817-825, 841-854, 870-876: the corner the k-th line of an eye goes to
LineCorner(k) ==
    LET L == CaveFaceMm[0]
        R == CaveFaceMm[1]
        B == CaveFaceMm[2]
    IN  CASE k = 1 -> L[3]
          [] k = 2 -> L[1]
          [] k = 3 -> R[3]
          [] k = 4 -> R[1]
          [] k = 5 -> VAdd(R[2], VSub(R[3], R[1]))
          [] k = 6 -> R[2]
          [] k = 7 -> B[2]

\* the Line objects after the updates of one preRender call
preRenderLines(ls, eyeIdx, eyePos) ==
    [n \in LineObjects |->
        IF \E k \in 1 .. 7 : n = LineOf(eyeIdx, k)
        THEN LineUpdate(LineCorner(CHOOSE k \in 1 .. 7 : n = LineOf(eyeIdx, k)),
                        eyePos, eyeIdx = 1)
        ELSE ls[n]]

----------------------------------------------------------------------------
(* SimScene::preRender *)

\* rand() % 6 of line 804
RollRange == 0 .. 5

\* line 673: rand() % 6 before srand, a value fixed by the C library
InitialRandomNums == {0}

\* Faulty variant: the combinations are numbered eye * 2 + face.
FaceDrawnStride2(bX, eyeIdx, f, rnd) == bX = 0 \/ eyeIdx * 2 + f # rnd

\* lines 811, 835, 864: the test guarding a face's scene geometry
FaceDrawn(bX, eyeIdx, f, rnd) == bX = 0 \/ eyeIdx * 3 + f # rnd

\* Faulty variant: the value is rolled again in every scene pass while the mode is on.
NeedsRollAlways(bX, gened) == bX = 1

\* line 803
NeedsRoll(bX, gened) == bX = 1 /\ ~gened

\* Faulty variant: the faces of the pass that rolls are still tested against the old value.
TestedNumStale(bX, gened, rnd, roll) == rnd

\* random_num as the three face tests of one preRender call see it
TestedNum(bX, gened, rnd, roll) == IF NeedsRoll(bX, gened) THEN roll ELSE rnd

\* Faulty variant: a face whose scene geometry is skipped is not cleared either.
FaceCallsClearIfDrawn(bX, eyeIdx, f, rnd) ==
    <<Call("glBindFramebuffer", FaceFBO(f), "preRender", eyeIdx),
      Call("glViewport", "2048x2048", "preRender", eyeIdx)>>
    \o (IF FaceDrawn(bX, eyeIdx, f, rnd)
        THEN <<Call("glClear", "color|depth", "preRender", eyeIdx),
               Call("draw", "skybox", "preRender", eyeIdx),
               Call("draw", "cube", "preRender", eyeIdx)>>
        ELSE <<>>)

\* lines 795-798 and 811-816, 828-830 and 835-840, 857-859 and 864-869
FaceCalls(bX, eyeIdx, f, rnd) ==
    <<Call("glBindFramebuffer", FaceFBO(f), "preRender", eyeIdx),
      Call("glViewport", "2048x2048", "preRender", eyeIdx),
      Call("glClear", "color|depth", "preRender", eyeIdx)>>
    \o (IF FaceDrawn(bX, eyeIdx, f, rnd)
        THEN <<Call("draw", "skybox", "preRender", eyeIdx),
               Call("draw", "cube", "preRender", eyeIdx)>>
        ELSE <<>>)

\* Faulty variant: the caller's framebuffer and viewport are not put back.
RestoreCallsDefaultOnly(eyeIdx) ==
    <<Call("glBindFramebuffer", "0", "preRender", eyeIdx),
      Call("glClear", "color|depth", "preRender", eyeIdx)>>

\* lines 878-883
RestoreCalls(eyeIdx) ==
    <<Call("glBindFramebuffer", "0", "preRender", eyeIdx),
      Call("glClear", "color|depth", "preRender", eyeIdx),
      Call("glBindFramebuffer", "_fbo", "preRender", eyeIdx),
      Call("glViewport", EyeViewport(eyeIdx), "preRender", eyeIdx)>>

\* The graphics calls of one preRender call, in program order.
preRenderCalls(bX, eyeIdx, rnd) ==
    FaceCalls(bX, eyeIdx, 0, rnd) \o FaceCalls(bX, eyeIdx, 1, rnd)
    \o FaceCalls(bX, eyeIdx, 2, rnd) \o RestoreCalls(eyeIdx)

----------------------------------------------------------------------------
(* SimScene::render *)

\* Faulty variant: the left quad is given the right face's texture and the
\* right quad the left face's.
renderCallsSwapped(eyeIdx) ==
    <<Call("draw", "riftskybox", "render", eyeIdx),
      Call("glBindTexture", FaceTexture(1), "render", eyeIdx),
      Call("draw", "cave.left", "render", eyeIdx),
      Call("glBindTexture", FaceTexture(0), "render", eyeIdx),
      Call("draw", "cave.right", "render", eyeIdx),
      Call("glBindTexture", FaceTexture(2), "render", eyeIdx),
      Call("draw", "cave.bottom", "render", eyeIdx)>>
    \o [i \in 1 .. Len(LineNames) |-> Call("draw", LineNames[i], "render", eyeIdx)]

\* lines 915-938, with Cave::draw (Cave.cpp lines 136-152)
renderCalls(eyeIdx) ==
    <<Call("draw", "riftskybox", "render", eyeIdx),
      Call("glBindTexture", FaceTexture(0), "render", eyeIdx),
      Call("draw", "cave.left", "render", eyeIdx),
      Call("glBindTexture", FaceTexture(1), "render", eyeIdx),
      Call("draw", "cave.right", "render", eyeIdx),
      Call("glBindTexture", FaceTexture(2), "render", eyeIdx),
      Call("draw", "cave.bottom", "render", eyeIdx)>>
    \o [i \in 1 .. Len(LineNames) |-> Call("draw", LineNames[i], "render", eyeIdx)]

----------------------------------------------------------------------------
(* RiftApp::draw *)

\* Faulty variant: the right eye is left out of the loop.
ForEachEyeLeftOnly == <<0>>

\* ovr::for_each_eye: ovrEye_Left, then ovrEye_Right
ForEachEye == <<0, 1>>

\* Faulty variant: the position is refreshed whatever the tracking mode.
ResolveRenderEyeNoFreeze(last, cur, trackingState) == [last EXCEPT !.Position = cur.Position]

\* lines 584-587: renderEye = lastEye; in LIVE mode its Position is overwritten
ResolveRenderEye(last, cur, trackingState) ==
    IF trackingState = 0 THEN [last EXCEPT !.Position = cur.Position] ELSE last

\* Faulty variant: the composite pass is given the resolved (scene pass) pose.
CompositePoseResolved(cur, resolved) == resolved

\* lines 594, 597-598: the pose of RenderPose and of renderScene
CompositePose(cur, resolved) == cur

\* Faulty variant: the composite pass is issued before the scene pass.
EyeCallsCompositeFirst(sceneCalls, compCalls) == compCalls \o sceneCalls

\* lines 596-598: offscreenRender, then renderScene
EyeCalls(sceneCalls, compCalls) == sceneCalls \o compCalls

\* Faulty variant: the offsets are not clamped.
RenderEyeOffsetXUnclamped(def, iod) == <<def[1] - iod \div 2, def[2] + iod \div 2>>

\* lines 555-556, in millimetres
RenderEyeOffsetX(def, iod) ==
    <<Min(Max(def[1] - iod \div 2, -300), 0), Min(Max(def[2] + iod \div 2, 0), 300)>>


----------------------------------------------------------------------------
(* SimApp::offscreenRender *)

\* Faulty variant: the stored hand pose is used whatever the tracking mode.
SubstitutedHandStored(trackingState, hand, stored) == stored

\* lines 1029-1036: the hand pose whose translation becomes no_rot[3]
SubstitutedHand(trackingState, hand, stored) ==
    IF trackingState = 0 THEN hand ELSE stored

\* lines 1037-1038: the translation of no_rot, moved along x by getDefaultIOD(curEyeIdx)
AdjustedEyePose(handPose, def, eyeIdx) ==
    <<handPose.Position[1] + def[eyeIdx + 1], handPose.Position[2], handPose.Position[3]>>

\* The arguments offscreenRender hands to preRender: the pose whose inverse
\* is the modelview, and eyePos.
offscreenRender(pressed, trackingState, hand, stored, def, eyeIdx, headPose, eyePos) ==
    IF pressed
    THEN [view   |-> MkPose(SubstitutedHand(trackingState, hand, stored).Position, OrientIdentity),
          eyePos |-> AdjustedEyePose(SubstitutedHand(trackingState, hand, stored), def, eyeIdx)]
    ELSE [view |-> headPose, eyePos |-> eyePos]

----------------------------------------------------------------------------
(* Initial state: after SimApp(), RiftApp::initGl and SimScene() *)

NoSceneArg ==
    [frame |-> 0, tracking |-> 0, subst |-> FALSE, pose |-> PoseIdentity,
     eyePos |-> <<0, 0, 0>>, tested |-> 0, rolled |-> FALSE,
     dist |-> SolverDists(<<0, 0, 0>>)]

NoCompositeArg ==
    [frame |-> 0, pose |-> PoseIdentity, eyePos |-> <<0, 0, 0>>,
     lines |-> [n \in LineObjects |-> DrawnLine(NewLine)]]

\* the members before SimApp::initGl
InitMembers ==
    /\ frame = 0
    /\ shouldClose = FALSE
    /\ buttonAPressed = FALSE /\ buttonBPressed = FALSE /\ buttonXPressed = FALSE
    /\ rightHandTriggerPressed = FALSE
    /\ buttonA = 0 /\ buttonB = 0 /\ buttonX = 0
    /\ random_num \in InitialRandomNums
    /\ randomGened = FALSE
    /\ curEyeIdx = 0
    /\ rightHandPose = PoseIdentity
    /\ triggerPose = <<0, 0, 0>>
    /\ lastRightHand \in UninitMat4
    /\ eyePoses = <<PoseIdentity, PoseIdentity>>
    /\ renderEyeOffset = <<0, 0>>
    /\ lastEye = <<PoseIdentity, PoseIdentity>>
    /\ renderEye = <<PoseIdentity, PoseIdentity>>
    /\ initLastEye = <<FALSE, FALSE>>
    /\ eyeIter = 1
    /\ RenderPose = <<PoseIdentity, PoseIdentity>>
    /\ sceneArg = <<NoSceneArg, NoSceneArg>>
    /\ compositeArg = <<NoCompositeArg, NoCompositeArg>>
    /\ glLog = <<>>
    /\ liveHand = <<0, 0, 0>>
    /\ lines = [n \in LineObjects |-> NewLine]
    /\ storedHandFrame = 0
    /\ errLog = {}

\* line 672: IOD = 0.0f (nothing assigns it again); lines 458-459: the device's
\* default offsets
InitDevice ==
    /\ IOD = 0
    /\ defaultHmdToEyeOffset \in DefaultOffsetSamples

\* the wall texture file is in place and whole
PpmWhole == [found |-> TRUE, width |-> 4, height |-> 4, whole |-> TRUE]

\* the state when GlfwApp::run enters its loop, the backend having accepted
\* every allocation
InitFrame ==
    /\ InitMembers
    /\ InitDevice
    /\ step = "loop"
    /\ glObjects = RenderTargetObjects
    /\ fboComplete = [f \in Faces |-> TRUE]
    /\ ppmFile = PpmWhole
    /\ wallTexture = loadCubemap(PpmWhole)

\* the state when GlfwApp::run calls initGl (line 202)
InitLifecycle ==
    /\ InitMembers
    /\ InitDevice
    /\ step = "initGl"
    /\ glObjects = {}
    /\ fboComplete = [f \in Faces |-> FALSE]
    /\ ppmFile \in PpmSamples
    /\ wallTexture = [image |-> "null", width |-> 0, height |-> 0]

----------------------------------------------------------------------------
(* GlfwApp::run *)

\* everything but step and what initGl sets up
runVars == <<frame, shouldClose, buttonAPressed, buttonBPressed, buttonXPressed,
             rightHandTriggerPressed, buttonA, buttonB, buttonX, IOD, random_num,
             randomGened, curEyeIdx, defaultHmdToEyeOffset, rightHandPose, triggerPose,
             lastRightHand, eyePoses, renderEyeOffset, lastEye, renderEye, initLastEye,
             eyeIter, RenderPose, sceneArg, compositeArg, glLog, liveHand, lines,
             storedHandFrame>>

\* line 202: SimApp::initGl.  RiftApp::initGl throws when the swap chain cannot
\* be created (lines 495-499; WinMain reports the exception and returns);
\* otherwise SimScene() generates the render-target objects (lines 700-760)
\* and Cave() loads the wall texture.  The completeness of the framebuffers
\* is never queried.
\* swapOk: ovr_CreateTextureSwapChainGL succeeded; rejected: the faces whose
\* target the backend gave no storage.
InitGl(swapOk, rejected) ==
    /\ step = "initGl"
    /\ IF ~swapOk
       THEN /\ step' = "aborted"
            /\ errLog' = errLog \cup {"Failed to create swap textures"}
            /\ UNCHANGED <<glObjects, fboComplete, wallTexture>>
       ELSE /\ glObjects' = glObjects \cup RenderTargetObjects
            /\ fboComplete' = [f \in Faces |-> f \notin rejected]
            /\ wallTexture' = loadCubemap(ppmFile)
            /\ errLog' = errLog \cup loadPPM(ppmFile).err
            /\ step' = "loop"
    /\ UNCHANGED <<runVars, ppmFile, projVars>>

\* line 204-205: the loop test and ++frame
LoopTest ==
    /\ step = "loop"
    /\ IF shouldClose
       THEN step' = "shutdown" /\ frame' = frame
       ELSE frame < MaxFrames /\ frame' = frame + 1 /\ step' = "poll"
    /\ UNCHANGED <<shouldClose, buttonAPressed, buttonBPressed, buttonXPressed,
                   rightHandTriggerPressed, buttonA, buttonB, buttonX, IOD, random_num,
                   randomGened, curEyeIdx, defaultHmdToEyeOffset, rightHandPose,
                   triggerPose, lastRightHand, eyePoses, renderEyeOffset, lastEye,
                   renderEye, initLastEye, eyeIter, RenderPose, sceneArg, compositeArg,
                   glLog, liveHand, projVars, initVars, lines,
                   storedHandFrame>>

\* line 206: glfwPollEvents; GlfwApp::onKey closes the window on ESC
PollEvents(esc) ==
    /\ step = "poll"
    /\ shouldClose' = (shouldClose \/ esc)
    /\ step' = "update"
    /\ UNCHANGED <<frame, buttonAPressed, buttonBPressed, buttonXPressed,
                   rightHandTriggerPressed, buttonA, buttonB, buttonX, IOD, random_num,
                   randomGened, curEyeIdx, defaultHmdToEyeOffset, rightHandPose,
                   triggerPose, lastRightHand, eyePoses, renderEyeOffset, lastEye,
                   renderEye, initLastEye, eyeIter, RenderPose, sceneArg, compositeArg,
                   glLog, liveHand, projVars, initVars, lines,
                   storedHandFrame>>

\* Faulty variant: the mode advances in every update that sees the button down.
ToggleWhileHeld(mode, wasPressed, down, n) == IF down THEN (mode + 1) % n ELSE mode

\* lines 987-998: a mode advances in the update that sees its button released
\* after an update that saw it down
Toggle(mode, wasPressed, down, n) ==
    IF ~down /\ wasPressed THEN (mode + 1) % n ELSE mode

\* SimApp::update.  ok: ovr_GetInputState succeeded; buttons: inputState.Buttons;
\* trig: HandTrigger[ovrHand_Right] > 0.5; hand: trackState.HandPoses[ovrHand_Right].
\* (The cube's position and size, which no pass ordering or pose depends on, are
\* left out.)
Update(ok, buttons, trig, hand) ==
    /\ step = "update"
    /\ step' = "draw"
    /\ IF ok
       THEN /\ buttonAPressed' = ("A" \in buttons)
            /\ buttonA' = Toggle(buttonA, buttonAPressed, "A" \in buttons, 4)
            /\ buttonBPressed' = ("B" \in buttons)
            /\ buttonB' = Toggle(buttonB, buttonBPressed, "B" \in buttons, 2)
            /\ buttonXPressed' = ("X" \in buttons)
            /\ buttonX' = Toggle(buttonX, buttonXPressed, "X" \in buttons, 2)
            /\ randomGened' = IF "X" \notin buttons /\ buttonXPressed
                              THEN FALSE ELSE randomGened
            /\ rightHandTriggerPressed' = trig
            /\ rightHandPose' = hand
            /\ triggerPose' = hand.Position
            /\ liveHand' = IF buttonB' = 0 THEN hand.Position ELSE liveHand
       ELSE UNCHANGED <<buttonAPressed, buttonA, buttonBPressed, buttonB, buttonXPressed,
                        buttonX, randomGened, rightHandTriggerPressed, rightHandPose,
                        triggerPose, liveHand>>
    /\ UNCHANGED <<frame, shouldClose, IOD, random_num, curEyeIdx, defaultHmdToEyeOffset,
                   lastRightHand, eyePoses, renderEyeOffset, lastEye, renderEye,
                   initLastEye, eyeIter, RenderPose, sceneArg, compositeArg, glLog,
                   projVars, initVars, lines,
                   storedHandFrame>>

\* Faulty variant: the eye poses are not queried.
DrawBeginCallsNoPoses ==
    <<Call("glBindFramebuffer", "_fbo", "draw", -1),
      Call("glClear", "color|depth", "draw", -1)>>

\* lines 568-576: the calls RiftApp::draw issues before the eye loop
DrawBeginCalls ==
    <<Call("ovr_GetEyePoses", "-", "draw", -1),
      Call("glBindFramebuffer", "_fbo", "draw", -1),
      Call("glClear", "color|depth", "draw", -1)>>

\* RiftApp::draw, lines 551-576: the eye offsets, ovr_GetEyePoses, and the bind
\* and clear of the frame's eye framebuffer
DrawBegin(sample) ==
    /\ step = "draw"
    /\ renderEyeOffset' = RenderEyeOffsetX(defaultHmdToEyeOffset, IOD)
    /\ eyePoses' = sample
    /\ glLog' = Issue(<<>>, DrawBeginCalls)
    /\ eyeIter' = 1
    /\ step' = "eye"
    /\ UNCHANGED <<frame, shouldClose, buttonAPressed, buttonBPressed, buttonXPressed,
                   rightHandTriggerPressed, buttonA, buttonB, buttonX, IOD, random_num,
                   randomGened, curEyeIdx, defaultHmdToEyeOffset, rightHandPose,
                   triggerPose, lastRightHand, lastEye, renderEye, initLastEye,
                   RenderPose, sceneArg, compositeArg, liveHand, projVars, initVars, lines,
                   storedHandFrame>>

\* the values rand() % 6 can yield where preRender calls it (random_num stands
\* in when it is not called)
Rolls == IF NeedsRoll(buttonX, randomGened) THEN RollRange ELSE {random_num}

\* RiftApp::draw, lines 577-610: the body of the for_each_eye lambda for one eye,
\* with offscreenRender -> preRender and renderScene -> render.
\* roll: the value rand() % 6 yields if preRender calls it.
DrawEye(roll) ==
    /\ step = "eye"
    /\ eyeIter <= Len(ForEachEye)
    /\ roll \in Rolls
    /\ LET eye  == ForEachEye[eyeIter]
           last == IF initLastEye[eye + 1] THEN lastEye[eye + 1] ELSE eyePoses[eye + 1]
           rEye == ResolveRenderEye(last, eyePoses[eye + 1], buttonB)
           comp == CompositePose(eyePoses[eye + 1], rEye)
           off  == offscreenRender(rightHandTriggerPressed, buttonB, rightHandPose,
                                   lastRightHand, defaultHmdToEyeOffset, eye,
                                   rEye, rEye.Position)
           rnd  == TestedNum(buttonX, randomGened, random_num, roll)
       IN  /\ initLastEye' = [initLastEye EXCEPT ![eye + 1] = TRUE]
           /\ renderEye' = [renderEye EXCEPT ![eye + 1] = rEye]
           /\ lastEye' = [lastEye EXCEPT ![eye + 1] = rEye]
           /\ curEyeIdx' = eye
           /\ RenderPose' = [RenderPose EXCEPT ![eye + 1] = comp]
           /\ lastRightHand' = IF rightHandTriggerPressed /\ buttonB = 0
                               THEN rightHandPose ELSE lastRightHand
           /\ storedHandFrame' = IF rightHandTriggerPressed /\ buttonB = 0
                                 THEN frame ELSE storedHandFrame
           /\ random_num' = IF NeedsRoll(buttonX, randomGened) THEN roll ELSE random_num
           /\ randomGened' = (randomGened \/ NeedsRoll(buttonX, randomGened))
           /\ sceneArg' = [sceneArg EXCEPT ![eye + 1] =
                              [frame |-> frame, tracking |-> buttonB,
                               subst |-> rightHandTriggerPressed,
                               pose |-> off.view, eyePos |-> off.eyePos,
                               tested |-> rnd,
                               rolled |-> NeedsRoll(buttonX, randomGened),
                               dist |-> SolverDists(off.eyePos)]]
           /\ lines' = preRenderLines(lines, eye, off.eyePos)
           /\ compositeArg' = [compositeArg EXCEPT ![eye + 1] =
                              [frame |-> frame, pose |-> comp, eyePos |-> comp.Position,
                               lines |-> [n \in LineObjects |->
                                             DrawnLine(preRenderLines(lines, eye, off.eyePos)[n])]]]
           /\ glLog' = Issue(glLog,
                              <<Call("glViewport", EyeViewport(eye), "draw", eye)>>
                              \o EyeCalls(preRenderCalls(buttonX, eye, rnd), renderCalls(eye)))
    /\ eyeIter' = eyeIter + 1
    /\ step' = IF eyeIter = Len(ForEachEye) THEN "submit" ELSE "eye"
    /\ UNCHANGED <<frame, shouldClose, buttonAPressed, buttonBPressed, buttonXPressed,
                   rightHandTriggerPressed, buttonA, buttonB, buttonX, IOD,
                   defaultHmdToEyeOffset, rightHandPose, triggerPose, eyePoses,
                   renderEyeOffset, liveHand, projVars, initVars>>

\* RiftApp::draw, lines 611-622: detach, commit, submit, mirror blit
DrawEnd ==
    /\ step = "submit"
    /\ glLog' = Issue(glLog, <<Call("glBindFramebuffer", "0", "draw", -1),
                                Call("ovr_CommitTextureSwapChain", "-", "draw", -1),
                                Call("ovr_SubmitFrame", "-", "draw", -1),
                                Call("glBlitFramebuffer", "mirror", "draw", -1)>>)
    /\ step' = "finish"
    /\ UNCHANGED <<frame, shouldClose, buttonAPressed, buttonBPressed, buttonXPressed,
                   rightHandTriggerPressed, buttonA, buttonB, buttonX, IOD, random_num,
                   randomGened, curEyeIdx, defaultHmdToEyeOffset, rightHandPose,
                   triggerPose, lastRightHand, eyePoses, renderEyeOffset, lastEye,
                   renderEye, initLastEye, eyeIter, RenderPose, sceneArg, compositeArg,
                   liveHand, projVars, initVars, lines,
                   storedHandFrame>>

\* GlfwApp::finishFrame: glfwSwapBuffers
FinishFrame ==
    /\ step = "finish"
    /\ step' = "loop"
    /\ UNCHANGED <<frame, shouldClose, buttonAPressed, buttonBPressed, buttonXPressed,
                   rightHandTriggerPressed, buttonA, buttonB, buttonX, IOD, random_num,
                   randomGened, curEyeIdx, defaultHmdToEyeOffset, rightHandPose,
                   triggerPose, lastRightHand, eyePoses, renderEyeOffset, lastEye,
                   renderEye, initLastEye, eyeIter, RenderPose, sceneArg, compositeArg,
                   glLog, liveHand, projVars, initVars, lines,
                   storedHandFrame>>

\* SimApp::shutdownGl, then run() returns
ShutdownGl ==
    /\ step = "shutdown"
    /\ step' = "done"
    /\ UNCHANGED <<frame, shouldClose, buttonAPressed, buttonBPressed, buttonXPressed,
                   rightHandTriggerPressed, buttonA, buttonB, buttonX, IOD, random_num,
                   randomGened, curEyeIdx, defaultHmdToEyeOffset, rightHandPose,
                   triggerPose, lastRightHand, eyePoses, renderEyeOffset, lastEye,
                   renderEye, initLastEye, eyeIter, RenderPose, sceneArg, compositeArg,
                   glLog, liveHand, projVars, initVars, lines,
                   storedHandFrame>>


----------------------------------------------------------------------------
(* Calls of getProjection on bounded inputs *)

MaxEye == 3

MaxEyeY == 1

\* Rectangles <<pa, pb, pc>> given in world space, with a right angle at pa and
\* edges of rational length: the rectangle of the symmetric example and a
\* rectangle turned about the y axis by the angle of cosine 3/5.
ProjFaces ==
    { << <<-1, -1, 0>>,  <<1, -1, 0>>,   <<-1, 1, 0>> >>,
      << <<-3, -2, -4>>, <<3, -2, 4>>,   <<-3, 2, -4>> >> }

\* The near plane: preRender's nearPlane (line 800), and the 0.1 of the
\* symmetric example for its rectangle.
NearOf(f) == IF f[1] = <<-1, -1, 0>> THEN Rat(1, 10) ELSE Rat(1, 100)

\* the eye positions the solver is called with: x and z within MaxEye, y within MaxEyeY
EyeBox == ((-MaxEye) .. MaxEye) \X ((-MaxEyeY) .. MaxEyeY) \X ((-MaxEye) .. MaxEye)

EyeMoves ==
    { <<1, 0, 0>>, <<-1, 0, 0>>, <<0, 1, 0>>, <<0, 0, 1>>, <<0, 0, -1>>,
      <<3, 0, 4>>, <<-4, 0, 3>>, <<1, -1, 0>> }

\* a corner as getProjection receives it: in.world = "cave" says the corner is
\* given in CAVE coordinates and goes through cave->toWorld first
WorldCorner(in, p) == IF in.world = "cave" THEN CaveToWorld(VInt(p)) ELSE VInt(p)

Solve(in) ==
    getProjection(VInt(in.eyePos), WorldCorner(in, in.pa), WorldCorner(in, in.pb),
                  WorldCorner(in, in.pc), in.n)

\* the eye is off the face plane (the precondition of the solver)
OffPlane(in) ==
    RSign(Dot(Cross(VSub(WorldCorner(in, in.pb), WorldCorner(in, in.pa)),
                    VSub(WorldCorner(in, in.pc), WorldCorner(in, in.pa))),
              VSub(WorldCorner(in, in.pa), VInt(in.eyePos)))) # 0

ProjEyes == { <<0, 0, 1>>, <<0, 0, 5>>, <<1, 0, 0>> }

ProjInputs ==
    { [eyePos |-> e, pa |-> f[1], pb |-> f[2], pc |-> f[3], n |-> NearOf(f),
       world |-> "none"] : e \in ProjEyes, f \in ProjFaces }
    \cup
    { [eyePos |-> e, pa |-> CaveCorners(f, CaveHalf)[1], pb |-> CaveCorners(f, CaveHalf)[2],
       pc |-> CaveCorners(f, CaveHalf)[3], n |-> Rat(1, 100), world |-> "cave"] :
        e \in ProjEyes, f \in Faces }

IdleProj ==
    [eyePos |-> <<0, 0, 5>>, pa |-> <<-1, -1, 0>>, pb |-> <<1, -1, 0>>,
     pc |-> <<-1, 1, 0>>, n |-> Rat(1, 10), world |-> "none"]

\* the eye moves by mv and the solver is called again for the same face;
\* projPrev keeps the previous call
MoveEye(mv) ==
    LET e  == projIn.eyePos
        e2 == <<e[1] + mv[1], e[2] + mv[2], e[3] + mv[3]>>
        in == [projIn EXCEPT !.eyePos = e2]
    IN  /\ e2 \in EyeBox
        /\ OffPlane(in)
        /\ projIn' = in
        /\ projOut' = Solve(in)
        /\ projPrev' = [in |-> projIn, out |-> projOut]
        /\ UNCHANGED frameVars

----------------------------------------------------------------------------
(* Specifications *)

Init ==
    /\ InitFrame
    /\ projIn = IdleProj
    /\ projOut = Solve(IdleProj)
    /\ projPrev = [in |-> IdleProj, out |-> Solve(IdleProj)]

\* Frames driven by the B button, the hand trigger and the tracked poses.
Next ==
    \/ LoopTest
    \/ \E esc \in BOOLEAN : PollEvents(esc)
    \/ \E buttons \in TrackingButtonSets, trig \in BOOLEAN, hand \in HandPoseSamples :
          Update(TRUE, buttons, trig, hand)
    \/ Update(FALSE, {}, FALSE, PoseIdentity)
    \/ \E sample \in EyePoseSamples : DrawBegin(sample)
    \/ \E roll \in RollRange : DrawEye(roll)
    \/ DrawEnd
    \/ FinishFrame
    \/ ShutdownGl

\* Frames driven by the X button.
NextOcclusion ==
    \/ LoopTest
    \/ \E esc \in BOOLEAN : PollEvents(esc)
    \/ \E buttons \in OcclusionButtonSets, hand \in HandPoseSamples :
          Update(TRUE, buttons, FALSE, hand)
    \/ Update(FALSE, {}, FALSE, PoseIdentity)
    \/ \E sample \in EyePoseSamples : DrawBegin(sample)
    \/ \E roll \in RollRange : DrawEye(roll)
    \/ DrawEnd
    \/ FinishFrame
    \/ ShutdownGl

\* Start-up, frames without controller input, and shutdown.
NextLifecycle ==
    \/ \E swapOk \in BOOLEAN, rejected \in SUBSET Faces : InitGl(swapOk, rejected)
    \/ LoopTest
    \/ \E esc \in BOOLEAN : PollEvents(esc)
    \/ Update(FALSE, {}, FALSE, PoseIdentity)
    \/ \E sample \in EyePoseSamples : DrawBegin(sample)
    \/ \E roll \in RollRange : DrawEye(roll)
    \/ DrawEnd
    \/ FinishFrame
    \/ ShutdownGl

\* Device default offsets and values of IOD the clamp of lines 555-556 is
\* applied to, in millimetres: inside, on and beyond the clamp limits, and of
\* either sign.
DefaultOffsetGrid == {-400, -29, 0, 29, 400}

IODGrid == {-800, -60, 0, 60, 800}

InitClamp ==
    /\ InitMembers
    /\ IOD \in IODGrid
    /\ defaultHmdToEyeOffset \in DefaultOffsetGrid \X DefaultOffsetGrid
    /\ step = "loop"
    /\ glObjects = RenderTargetObjects
    /\ fboComplete = [f \in Faces |-> TRUE]
    /\ ppmFile = PpmWhole
    /\ wallTexture = loadCubemap(PpmWhole)
    /\ projIn = IdleProj
    /\ projOut = Solve(IdleProj)
    /\ projPrev = [in |-> IdleProj, out |-> Solve(IdleProj)]

\* Frames driven by the hand trigger.
NextClamp ==
    \/ LoopTest
    \/ \E esc \in BOOLEAN : PollEvents(esc)
    \/ \E trig \in BOOLEAN : Update(TRUE, {}, trig, MkPose(<<300, 1200, -400>>, 1))
    \/ Update(FALSE, {}, FALSE, PoseIdentity)
    \/ DrawBegin(<<MkPose(<<-30, 1700, 0>>, 1), MkPose(<<30, 1700, 0>>, 1)>>)
    \/ \E roll \in RollRange : DrawEye(roll)
    \/ DrawEnd
    \/ FinishFrame
    \/ ShutdownGl

\* inputState.Buttons as far as the three mode buttons read it
ModeButtonSets == SUBSET {"A", "B", "X"}

\* Frames driven by the A, B and X buttons.
NextButtons ==
    \/ LoopTest
    \/ \E esc \in BOOLEAN : PollEvents(esc)
    \/ \E buttons \in ModeButtonSets :
          Update(TRUE, buttons, FALSE, MkPose(<<300, 1200, -400>>, 1))
    \/ Update(FALSE, {}, FALSE, PoseIdentity)
    \/ DrawBegin(<<MkPose(<<-30, 1700, 0>>, 1), MkPose(<<30, 1700, 0>>, 1)>>)
    \/ \E roll \in RollRange : DrawEye(roll)
    \/ DrawEnd
    \/ FinishFrame
    \/ ShutdownGl

Spec == Init /\ [][Next]_vars

SpecButtons == Init /\ [][NextButtons]_vars

SpecClamp == InitClamp /\ [][NextClamp]_vars

InitStart ==
    /\ InitLifecycle
    /\ projIn = IdleProj
    /\ projOut = Solve(IdleProj)
    /\ projPrev = [in |-> IdleProj, out |-> Solve(IdleProj)]

SpecLifecycle == InitStart /\ [][NextLifecycle]_vars

SpecOcclusion == Init /\ [][NextOcclusion]_vars

InitProj ==
    /\ InitFrame
    /\ lastRightHand = PoseIdentity
    /\ projIn \in ProjInputs
    /\ OffPlane(projIn)
    /\ projOut = Solve(projIn)
    /\ projPrev = [in |-> projIn, out |-> projOut]

NextProj == \E mv \in EyeMoves : MoveEye(mv)

SpecProj == InitProj /\ [][NextProj]_vars


----------------------------------------------------------------------------
(* Reading the recorded calls *)

IsSceneCall(e, c) == c.fn = "preRender" /\ c.eye = e

IsCompositeDraw(e, c) == c.fn = "render" /\ c.eye = e /\ c.op = "draw"

IsSubmit(c) == c.op = "ovr_SubmitFrame"

SceneIdx(e) == {i \in DOMAIN glLog : IsSceneCall(e, glLog[i])}

CompositeIdx(e) == {i \in DOMAIN glLog : IsCompositeDraw(e, glLog[i])}

SubmitIdx == {i \in DOMAIN glLog : IsSubmit(glLog[i])}

\* the scene pass of eye e has bound the target of face f and then cleared it
FaceWritten(e, f) ==
    LET sc == SceneIdx(e)
    IN  \E i \in sc :
            /\ glLog[i].op = "glBindFramebuffer" /\ glLog[i].arg = FaceFBO(f)
            /\ \E k \in sc : k > i /\ glLog[k].op = "glClear" /\ glLog[k].target = FaceFBO(f)

\* the composite pass of eye e has issued its draws
Composited(e) ==
    \A what \in {"riftskybox", "cave.left", "cave.right", "cave.bottom", "linel1", "liner7"} :
        \E i \in CompositeIdx(e) : glLog[i].arg = what

\* the (eye, face) combinations whose scene geometry (skybox and cube) was drawn
DrawnCombos ==
    {ef \in Eyes \X Faces :
        \A what \in {"skybox", "cube"} :
            \E i \in SceneIdx(ef[1]) :
                /\ glLog[i].op = "draw" /\ glLog[i].arg = what
                /\ glLog[i].target = FaceFBO(ef[2])}

SkippedCombos == (Eyes \X Faces) \ DrawnCombos

ScenePassedThisFrame(e) == frame > 0 /\ sceneArg[e + 1].frame = frame

CompositedThisFrame(e) == frame > 0 /\ compositeArg[e + 1].frame = frame

----------------------------------------------------------------------------
(* Claims *)

\* C1: in every frame and for each eye, the three face renders of the scene
\* pass (bind, clear and draws into the left, right and bottom targets) are
\* complete before any draw call of that eye's composite pass is issued.
C1_SceneBeforeComposite ==
    \A e \in Eyes :
        LET sc == SceneIdx(e)
            co == CompositeIdx(e)
        IN  co # {} =>
                /\ \A f \in Faces : FaceWritten(e, f)
                /\ \A j \in sc : \A i \in co : j < i

C1_Witness ==
    /\ step = "submit"
    /\ Composited(0) /\ Composited(1)
    /\ \A e \in Eyes : \A f \in Faces : FaceWritten(e, f)

\* C2: the frame is submitted exactly once per frame, and only after the scene
\* pass (all three target writes) and the composite pass of both eyes.
C2_SubmitOnceAfterBothEyes ==
    LET sub == SubmitIdx
    IN  /\ Cardinality(sub) <= 1
        /\ step = "finish" => Cardinality(sub) = 1
        /\ \A s \in sub :
              \A e \in Eyes :
                  /\ \A f \in Faces : FaceWritten(e, f)
                  /\ Composited(e)
                  /\ \A i \in SceneIdx(e) \cup CompositeIdx(e) : i < s

C2_Witness == step = "finish" /\ frame = 2 /\ Cardinality(SubmitIdx) = 1 /\ Composited(1)

\* C3: while the tracking mode stays FROZEN the pose stored for an eye does not
\* change, and every scene pass without substitution is given that stored
\* pose (and its position as the eye position), whatever the tracked pose is.
C3_FrozenPoseHeld ==
    [][\A e \in Eyes :
          (buttonB = 1 /\ buttonB' = 1) =>
              /\ lastEye'[e + 1] = lastEye[e + 1]
              /\ (sceneArg'[e + 1].frame # sceneArg[e + 1].frame /\ ~sceneArg'[e + 1].subst) =>
                    /\ sceneArg'[e + 1].pose = lastEye[e + 1]
                    /\ sceneArg'[e + 1].eyePos = lastEye[e + 1].Position]_vars

C3_Witness ==
    /\ buttonB = 1 /\ frame = 3
    /\ ScenePassedThisFrame(0) /\ ~sceneArg[1].subst
    /\ sceneArg[1].tracking = 1
    /\ sceneArg[1].eyePos # eyePoses[1].Position
    /\ sceneArg[1].pose = lastEye[1]

\* C4 (as stated): with tracking mode LIVE and no substitution, the pose given
\* to the scene pass of an eye is that frame's tracked pose of the eye, its
\* position and its orientation.
C4_LivePoseIsCurrent ==
    \A e \in Eyes :
        (ScenePassedThisFrame(e) /\ sceneArg[e + 1].tracking = 0 /\ ~sceneArg[e + 1].subst) =>
            /\ sceneArg[e + 1].eyePos = eyePoses[e + 1].Position
            /\ sceneArg[e + 1].pose = eyePoses[e + 1]

\* C5: for each eye the composite pass (view pose and eye position) and the
\* render pose submitted with the frame are the frame's tracked pose of that
\* eye, in LIVE and FROZEN mode, with and without substitution.
C5_CompositeUsesTruePose ==
    \A e \in Eyes :
        CompositedThisFrame(e) =>
            /\ compositeArg[e + 1].pose = eyePoses[e + 1]
            /\ compositeArg[e + 1].eyePos = eyePoses[e + 1].Position
            /\ RenderPose[e + 1] = eyePoses[e + 1]

C5_Witness ==
    /\ CompositedThisFrame(1) /\ ScenePassedThisFrame(1)
    /\ buttonB = 1 /\ rightHandTriggerPressed
    /\ sceneArg[2].eyePos # eyePoses[2].Position
    /\ compositeArg[2].pose = eyePoses[2]

\* C6 (as stated): with substitution active the eye position given to the
\* scene pass is the hand position plus the eye's lateral offset, the hand
\* position being the current one in LIVE mode and, in FROZEN mode, the one
\* held since FROZEN was engaged (the hand position of the last LIVE frame).
C6_SubstitutedEyePosition ==
    \A e \in Eyes :
        (ScenePassedThisFrame(e) /\ sceneArg[e + 1].subst) =>
            LET h == IF sceneArg[e + 1].tracking = 0 THEN triggerPose ELSE liveHand
            IN  sceneArg[e + 1].eyePos =
                    <<h[1] + defaultHmdToEyeOffset[e + 1], h[2], h[3]>>

\* C7: with the occlusion mode on, exactly one of the six (eye, face)
\* combinations has its scene geometry skipped in a frame and five are drawn;
\* with the mode off all six are drawn.
C7_OneComboSkipped ==
    step = "submit" =>
        /\ buttonX = 1 => (Cardinality(SkippedCombos) = 1 /\ Cardinality(DrawnCombos) = 5)
        /\ buttonX = 0 => DrawnCombos = Eyes \X Faces

C7_Witness == step = "submit" /\ buttonX = 1 /\ SkippedCombos = {<<1, 2>>}

FaceCentre(in) ==
    VAdd(WorldCorner(in, in.pa),
         VAdd(VScale(Rat(1, 2), VSub(WorldCorner(in, in.pb), WorldCorner(in, in.pa))),
              VScale(Rat(1, 2), VSub(WorldCorner(in, in.pc), WorldCorner(in, in.pa)))))

EyeCentred(in, out) ==
    /\ Cross(VSub(VInt(in.eyePos), FaceCentre(in)), out.vn) = VInt(<<0, 0, 0>>)
    /\ RSign(Dot(VSub(VInt(in.eyePos), FaceCentre(in)), out.vn)) > 0

C9_SymmetricFrustum ==
    /\ EyeCentred(projIn, projOut) =>
          /\ projOut.l = RNeg(projOut.r) /\ projOut.b = RNeg(projOut.t)
          /\ RSign(projOut.l) < 0 /\ RSign(projOut.b) < 0
    /\ projIn = IdleProj =>
          /\ projOut.l = Rat(-1, 50) /\ projOut.r = Rat(1, 50)
          /\ projOut.b = Rat(-1, 50) /\ projOut.t = Rat(1, 50)

C9_Witness ==
    /\ EyeCentred(projIn, projOut)
    /\ projIn.world = "cave" /\ projIn.pa = CaveCorners(0, CaveHalf)[1]
    /\ projPrev.in # projIn

\* C10: for the same face and near plane, an eye displacement parallel to the
\* face plane leaves d unchanged, shifts l and r by -(n/d) times the component
\* of the displacement along vr, shifts b and t by -(n/d) times its component
\* along vu, and leaves r - l and t - b unchanged.
EyeShift == VSub(VInt(projIn.eyePos), VInt(projPrev.in.eyePos))

ParallelMove == Dot(projOut.vn, EyeShift) = RInt(0) /\ projPrev.in # projIn

ShiftAlong(axis) ==
    RNeg(RMul(RDiv(projIn.n, projPrev.out.d), Dot(axis, EyeShift)))

C10_ParallelMoveShifts ==
    ParallelMove =>
        /\ projOut.d = projPrev.out.d
        /\ RSub(projOut.l, projPrev.out.l) = ShiftAlong(projOut.vr)
        /\ RSub(projOut.r, projPrev.out.r) = ShiftAlong(projOut.vr)
        /\ RSub(projOut.b, projPrev.out.b) = ShiftAlong(projOut.vu)
        /\ RSub(projOut.t, projPrev.out.t) = ShiftAlong(projOut.vu)
        /\ RSub(projOut.r, projOut.l) = RSub(projPrev.out.r, projPrev.out.l)
        /\ RSub(projOut.t, projOut.b) = RSub(projPrev.out.t, projPrev.out.b)

C10_Witness ==
    /\ ParallelMove
    /\ projIn.pa = <<-3, -2, -4>>
    /\ Dot(projOut.vr, EyeShift) # RInt(0)
    /\ projOut.l # projPrev.out.l

----------------------------------------------------------------------------
(* Claims about the CAVE faces and the returned matrix *)

One == RInt(1)

Zero == RInt(0)

\* C11: for each of the three CAVE faces, with the corners the scene pass
\* constructs through cave->toWorld, pb - pa is perpendicular to pc - pa and
\* the edges keep their length, and the basis vr, vu, vn the solver computes
\* is orthonormal.
C11_CaveBasisOrthonormal ==
    projIn.world = "cave" =>
        LET pa == WorldCorner(projIn, projIn.pa)
            pb == WorldCorner(projIn, projIn.pb)
            pc == WorldCorner(projIn, projIn.pc)
            e  == RInt(4 * CaveHalf * CaveHalf)
        IN  /\ Dot(VSub(pb, pa), VSub(pc, pa)) = Zero
            /\ Dot(VSub(pb, pa), VSub(pb, pa)) = e
            /\ Dot(VSub(pc, pa), VSub(pc, pa)) = e
            /\ Dot(projOut.vr, projOut.vr) = One
            /\ Dot(projOut.vu, projOut.vu) = One
            /\ Dot(projOut.vn, projOut.vn) = One
            /\ Dot(projOut.vr, projOut.vu) = Zero
            /\ Dot(projOut.vr, projOut.vn) = Zero
            /\ Dot(projOut.vu, projOut.vn) = Zero

\* the solver has been called for the right CAVE face, whose edge pb - pa lies
\* along no world axis, after the eye moved
C11_Witness ==
    /\ projIn.world = "cave" /\ projIn.pa = CaveCorners(1, CaveHalf)[1]
    /\ projOut.vr = <<CaveCos, Zero, RNeg(CaveSin)>>
    /\ projPrev.in # projIn

\* the returned matrix applied to the world-space point p (with w = 1)
Apply(row, p) ==
    RAdd(RAdd(RMul(row[1], p[1]), RMul(row[2], p[2])),
         RAdd(RMul(row[3], p[3]), row[4]))

\* C12: with the eye centred in front of the face, the returned matrix maps
\* the world-space centre of the face to clip-space x = 0 and y = 0 (with
\* w = d > 0).
C12_CentreOnViewAxis ==
    EyeCentred(projIn, projOut) =>
        /\ Apply(projOut.rowX, FaceCentre(projIn)) = Zero
        /\ Apply(projOut.rowY, FaceCentre(projIn)) = Zero
        /\ Apply(projOut.rowW, FaceCentre(projIn)) = projOut.d
        /\ RSign(projOut.d) > 0

\* the eye has moved to the point on the normal through the centre of the
\* bottom CAVE face
C12_Witness ==
    /\ EyeCentred(projIn, projOut)
    /\ projIn.pa = CaveCorners(2, CaveHalf)[1] /\ projIn.pb = CaveCorners(2, CaveHalf)[2]
    /\ projIn.world = "cave"
    /\ projPrev.in.eyePos # projIn.eyePos
    /\ Apply(projOut.rowW, FaceCentre(projIn)) = RInt(CaveHalf)

----------------------------------------------------------------------------
(* Claims about the frames: solver distance, debug lines, draw target *)

\* C13: in every frame, for every eye and every face whose scene geometry is
\* drawn, the eye position handed to the solver is strictly in front of the
\* face plane: d = -dot(vn, pa - eye) > 0.
C13_EyeInFrontOfFaces ==
    \A e \in Eyes : \A f \in Faces :
        (ScenePassedThisFrame(e)
         /\ FaceDrawn(buttonX, e, f, sceneArg[e + 1].tested))
            => RSign(sceneArg[e + 1].dist[f]) > 0

\* C14: the objects of the three render targets are created once, by
\* initGl, and none of them is still allocated when the frame loop has ended
\* and shutdownGl has run.
C14_TargetsReleasedAtTeardown ==
    /\ (step = "initGl" => glObjects = {})
    /\ (step = "done" => glObjects = {})

\* C15: once the backend has rejected the storage of a render target, the
\* session is aborted with a report, and no call of any frame draws into the
\* target or binds its texture.
C15_RejectionIsFatal ==
    \A f \in Faces :
        (glObjects # {} /\ ~fboComplete[f]) =>
            /\ step = "aborted"
            /\ errLog # {}
            /\ \A i \in DOMAIN glLog :
                   glLog[i].target # FaceFBO(f) /\ glLog[i].arg # FaceTexture(f)

\* C16: when the wall texture file is missing, loadPPM has logged the error,
\* glTexImage2D was given a null image of width 0 and height 0, and the program
\* is in the frame loop (or past it), not aborted.
C16_MissingTextureTolerated ==
    (~ppmFile.found /\ glObjects # {}) =>
        /\ wallTexture = [image |-> "null", width |-> 0, height |-> 0]
        /\ "error reading ppm file, could not locate" \in errLog
        /\ step \in {"loop", "poll", "update", "draw", "eye", "submit", "finish",
                     "shutdown", "done"}

\* a second frame has been drawn and composited with the wall texture missing
C16_Witness ==
    /\ ~ppmFile.found
    /\ step = "submit" /\ frame = 2
    /\ Composited(0) /\ Composited(1)
    /\ wallTexture.image = "null"

\* C17: every debug line an eye's composite pass draws from that eye's own
\* set has the true tracked position of the eye as its second endpoint.
C17_LinesFromTrueEye ==
    \A e \in Eyes :
        CompositedThisFrame(e) =>
            \A k \in 1 .. 7 :
                /\ compositeArg[e + 1].lines[LineOf(e, k)].uploaded
                /\ compositeArg[e + 1].lines[LineOf(e, k)].p2 = eyePoses[e + 1].Position

\* C18: every debug line a composite pass draws (with vertex data) is red when
\* the trigger is pressed and green when it is not.
C18_LineColourByTrigger ==
    \A e \in Eyes :
        CompositedThisFrame(e) =>
            \A n \in LineObjects :
                compositeArg[e + 1].lines[n].uploaded =>
                    compositeArg[e + 1].lines[n].colour =
                        IF rightHandTriggerPressed THEN "red" ELSE "green"

\* the argument of the last call of op among the first i calls of the frame
LastArg(op, i) ==
    LET idx == {j \in 1 .. i : glLog[j].op = op}
    IN  IF idx = {} THEN "none" ELSE glLog[CHOOSE j \in idx : \A k \in idx : k <= j].arg

\* C19: when the scene pass of an eye has returned, the draw framebuffer is the
\* frame's eye framebuffer and the viewport is the eye's rectangle, and so they
\* are at every draw of the composite pass that follows.
C19_TargetRestoredForComposite ==
    \A e \in Eyes :
        /\ SceneIdx(e) # {} =>
              LET last == CHOOSE j \in SceneIdx(e) : \A k \in SceneIdx(e) : k <= j
              IN  /\ LastArg("glBindFramebuffer", last) = "_fbo"
                  /\ LastArg("glViewport", last) = EyeViewport(e)
        /\ \A i \in CompositeIdx(e) :
              /\ glLog[i].target = "_fbo"
              /\ LastArg("glViewport", i) = EyeViewport(e)

\* both eyes have gone through the scene pass, which bound the three face
\* targets and the 2048x2048 viewport, and through the composite pass
C19_Witness ==
    /\ step = "submit" /\ frame = 2
    /\ \A e \in Eyes : Composited(e) /\ \A f \in Faces : FaceWritten(e, f)
    /\ \E i \in SceneIdx(1) : glLog[i].op = "glViewport" /\ glLog[i].arg = "2048x2048"

\* C20: for every IOD and every pair of device default offsets, the lateral
\* render offset of the left eye lies in [-0.3, 0] m and that of the right eye
\* in [0, 0.3] m, so the left one never exceeds the right one.
C20_OffsetsClamped ==
    /\ renderEyeOffset[1] \in -300 .. 0
    /\ renderEyeOffset[2] \in 0 .. 300
    /\ renderEyeOffset[1] <= renderEyeOffset[2]

\* draw has clamped a left offset below -0.3 m and a right offset that IOD made
\* negative
C20_Witness ==
    /\ step = "eye"
    /\ defaultHmdToEyeOffset[1] - IOD \div 2 < -300 /\ renderEyeOffset[1] = -300
    /\ defaultHmdToEyeOffset[2] + IOD \div 2 < 0 /\ renderEyeOffset[2] = 0

----------------------------------------------------------------------------
(* Claims about the producer -> consumer order of the face targets and the  *)
(* frame loop                                                               *)

\* the quad Cave::draw draws for face f
FaceQuad(f) == <<"cave.left", "cave.right", "cave.bottom">>[f + 1]

\* the calls of the frame that write into the target of face f
WriteIdx(f) ==
    {i \in DOMAIN glLog : glLog[i].op \in {"glClear", "draw"} /\ glLog[i].target = FaceFBO(f)}

\* the draws of the quad of face f in the composite pass of eye e
ReadIdx(e, f) == {i \in CompositeIdx(e) : glLog[i].arg = FaceQuad(f)}

BindIdx(e, f) ==
    {i \in SceneIdx(e) : glLog[i].op = "glBindFramebuffer" /\ glLog[i].arg = FaceFBO(f)}

ClearIdx(e, f) ==
    {i \in SceneIdx(e) : glLog[i].op = "glClear" /\ glLog[i].target = FaceFBO(f)}

Last(idx) == CHOOSE j \in idx : \A k \in idx : k <= j

\* C21: in the composite pass of eye e the quad of each face is drawn with that
\* face's render-target texture bound, the last write into that target before
\* the draw was issued by the scene pass of eye e in the same frame, and per eye
\* and frame each target is bound and cleared once and its quad drawn once.
C21_QuadSamplesOwnEyeTarget ==
    \A e \in Eyes : \A f \in Faces :
        /\ \A i \in ReadIdx(e, f) :
              /\ LastArg("glBindTexture", i) = FaceTexture(f)
              /\ LET w == {j \in WriteIdx(f) : j < i}
                 IN  /\ w # {}
                     /\ glLog[Last(w)].fn = "preRender"
                     /\ glLog[Last(w)].eye = e
              /\ sceneArg[e + 1].frame = compositeArg[e + 1].frame
        /\ Cardinality(ReadIdx(e, f)) <= 1
        /\ Cardinality(BindIdx(e, f)) <= 1
        /\ Cardinality(ClearIdx(e, f)) <= 1
        /\ Composited(e) =>
              /\ Cardinality(ReadIdx(e, f)) = 1
              /\ Cardinality(BindIdx(e, f)) = 1
              /\ Cardinality(ClearIdx(e, f)) = 1

\* a second frame in which both eyes were composited and the right face of the
\* left eye had its scene geometry skipped
C21_Witness ==
    /\ step = "submit" /\ frame = 2 /\ buttonX = 1
    /\ SkippedCombos = {<<0, 1>>}
    /\ Composited(0) /\ Composited(1)
    /\ \A e \in Eyes : \A f \in Faces : ReadIdx(e, f) # {}

\* C22: in every scene pass and for every face, drawn or skipped, the face's
\* target is bound, then the viewport is set to 2048x2048, then the target is
\* cleared, and every draw into the target comes after that clear with that
\* viewport in force.
C22_FaceBoundSizedCleared ==
    \A e \in Eyes : \A f \in Faces :
        SceneIdx(e) # {} =>
            /\ \E i \in BindIdx(e, f) : \E k \in ClearIdx(e, f) :
                  /\ i < k
                  /\ \E j \in (i + 1) .. (k - 1) :
                        /\ glLog[j].op = "glViewport" /\ glLog[j].arg = "2048x2048"
                        /\ glLog[j].target = FaceFBO(f)
                  /\ \A m \in SceneIdx(e) :
                        (glLog[m].op = "draw" /\ glLog[m].target = FaceFBO(f)) =>
                            m > k /\ LastArg("glViewport", m) = "2048x2048"
            /\ \A m \in DOMAIN glLog :
                  (glLog[m].op = "draw" /\ glLog[m].target = FaceFBO(f)) => m \in SceneIdx(glLog[m].eye)

\* a third frame in which the left face of the left eye was skipped, and bound
\* and cleared all the same
C22_Witness ==
    /\ step = "submit" /\ frame = 3 /\ buttonX = 1
    /\ SkippedCombos = {<<0, 0>>}
    /\ ClearIdx(0, 0) # {} /\ BindIdx(0, 0) # {}

PosesIdx == {i \in DOMAIN glLog : glLog[i].op = "ovr_GetEyePoses"}

\* the eye poses were queried, once, before every call of a scene or composite pass
PosesBeforePasses ==
    /\ Cardinality(PosesIdx) <= 1
    /\ \A e \in Eyes : \A i \in SceneIdx(e) \cup CompositeIdx(e) :
          \E q \in PosesIdx : q < i

\* C23: an iteration of the frame loop goes through event polling, update,
\* draw and frame finish in that order and through nothing else, the frame
\* counter advances only at the top of the loop, update has sampled the hand
\* pose and draw has queried the eye poses before any call of a scene or
\* composite pass of the frame.
C23_FrameStepsInOrder ==
    [][/\ (step = "loop" /\ ~shouldClose) => (step' = "poll" /\ frame' = frame + 1)
       /\ step = "poll" => step' = "update"
       /\ step = "update" => (step' = "draw" /\ glLog' = glLog)
       /\ step = "draw" =>
             /\ step' = "eye"
             /\ PosesIdx' = {1}
             /\ \A e \in Eyes : SceneIdx(e)' = {} /\ CompositeIdx(e)' = {}
       /\ step = "eye" => step' \in {"eye", "submit"}
       /\ step = "submit" => step' = "finish"
       /\ step = "finish" => step' = "loop"
       /\ frame' # frame => step = "loop"
       /\ rightHandPose' # rightHandPose => step = "update"
       /\ eyePoses' # eyePoses => step = "draw"
       /\ PosesBeforePasses']_vars

\* a third iteration has reached its frame finish with both passes of both eyes done
C23_Witness ==
    /\ step = "finish" /\ frame = 3
    /\ PosesIdx = {1}
    /\ Composited(0) /\ Composited(1)
    /\ rightHandPose # PoseIdentity

----------------------------------------------------------------------------
(* Claims about the substituted eye position, the frozen state, the debug   *)
(* lines, the mode buttons and the face rectangles                          *)

EyeDrawn(e) == sceneArg'[e + 1].frame # sceneArg[e + 1].frame

\* C25: when an eye is drawn, its stored pose becomes the frame's tracked pose
\* of the eye if this is the eye's first frame or the tracking mode is not
\* FROZEN, and is left as it is otherwise.
C25_FrozenStateTracksLive ==
    [][\A e \in Eyes :
          EyeDrawn(e) =>
              /\ (~initLastEye[e + 1] \/ buttonB = 0) => lastEye'[e + 1] = eyePoses[e + 1]
              /\ (initLastEye[e + 1] /\ buttonB = 1) => lastEye'[e + 1] = lastEye[e + 1]]_vars

\* the corners of face f in world space: pa, pb, pc and the fourth corner
FaceCornersMm(f) ==
    LET c == CaveFaceMm[f]
    IN  {c[1], c[2], c[3], VAdd(c[2], VSub(c[3], c[1]))}

CaveCornerUnion == UNION {FaceCornersMm(f) : f \in Faces}

\* the corner endpoints of the seven lines of eye e
LineEnds(e) == {lines[LineOf(e, k)].p1 : k \in 1 .. 7}

\* C26: after a scene pass of an eye, its seven lines have been updated and
\* their corner endpoints are the seven distinct corners of the union of the
\* left, right and bottom faces, one line to each corner.
C26_LinesReachSevenCorners ==
    \A e \in Eyes :
        ScenePassedThisFrame(e) =>
            /\ \A k \in 1 .. 7 : lines[LineOf(e, k)].uploaded
            /\ LineEnds(e) = CaveCornerUnion
            /\ Cardinality(LineEnds(e)) = 7
            /\ Cardinality(CaveCornerUnion) = 7

\* the right eye's lines have been updated in a second frame, the fifth going
\* to the corner of the right face that is none of pa, pb, pc
C26_Witness ==
    /\ frame = 2 /\ ScenePassedThisFrame(1)
    /\ lines["liner5"].uploaded
    /\ lines["liner5"].p1 \in FaceCornersMm(1)
    /\ lines["liner5"].p1 \notin {CaveFaceMm[1][1], CaveFaceMm[1][2], CaveFaceMm[1][3]}
    /\ lines["liner7"].p1 = CaveFaceMm[2][2]

\* one mode over one step: it changes only in an update that sees its button
\* released after an update that saw it down, and then it advances by one
ModeStep(mode, mode2, wasPressed, isPressed, n) ==
    /\ mode2 # mode => (step = "update" /\ wasPressed /\ ~isPressed)
    /\ (wasPressed /\ ~isPressed) => mode2 = (mode + 1) % n
    /\ isPressed => mode2 = mode
    /\ ~wasPressed => mode2 = mode

\* C27: the view state (mod 4), the tracking mode and the occlusion mode each
\* advance by one exactly in the update that first sees the button released
\* after it was seen down, and change in no other step: not while the button is
\* held, and not when it was not down before.
C27_ModeAdvancesOncePerPress ==
    [][/\ ModeStep(buttonA, buttonA', buttonAPressed, buttonAPressed', 4)
       /\ ModeStep(buttonB, buttonB', buttonBPressed, buttonBPressed', 2)
       /\ ModeStep(buttonX, buttonX', buttonXPressed, buttonXPressed', 2)]_vars

\* by the third update each of the three modes has advanced once and no button
\* is down
C27_Witness ==
    /\ frame = 3 /\ step = "draw"
    /\ buttonA = 1 /\ buttonB = 1 /\ buttonX = 1
    /\ ~buttonAPressed /\ ~buttonBPressed /\ ~buttonXPressed

\* C28: every line a composite pass has drawn held vertex data set by an update
\* of a scene pass before it.
C28_LinesUpdatedBeforeDrawn ==
    \A e \in Eyes :
        compositeArg[e + 1].frame > 0 =>
            \A n \in LineObjects : compositeArg[e + 1].lines[n].uploaded

\* C29: when a scene pass runs with substitution in FROZEN mode, the stored
\* hand pose it takes the eye position from was assigned in an earlier frame
\* (by a scene pass with substitution in LIVE mode).
C29_StoredHandWrittenBeforeRead ==
    \A e \in Eyes :
        (ScenePassedThisFrame(e) /\ sceneArg[e + 1].subst /\ sceneArg[e + 1].tracking = 1) =>
            /\ storedHandFrame \in 1 .. (frame - 1)
            /\ sceneArg[e + 1].pose.Position = lastRightHand.Position

\* the four corners of the rectangle the solver is given, in CAVE coordinates
SolverRectangle(in) ==
    {in.pa, in.pb, in.pc,
     <<in.pb[1] + in.pc[1] - in.pa[1], in.pb[2] + in.pc[2] - in.pa[2],
       in.pb[3] + in.pc[3] - in.pa[3]>>}

\* C30: the rectangle the solver is given for a CAVE face has, in CAVE
\* coordinates, the corners of the quad that displays that face's render target.
C30_SolverRectangleIsQuad ==
    projIn.world = "cave" =>
        \E f \in Faces :
            /\ <<projIn.pa, projIn.pb, projIn.pc>> = CaveCorners(f, CaveHalf)
            /\ SolverRectangle(projIn) = QuadVertices(f)

====
